---- MODULE Spec2Model ----
(***************************************************************************)
(* Model of the brainfck interpreter (src/src/main.rs): the single-pass    *)
(* translator parse_code, the Halt push done by main, and the dispatch     *)
(* loop of execute_code over the Intepreter tape.                          *)
(*                                                                         *)
(* Indices (instruction indices, jump targets, the tape pointer) keep the  *)
(* 0-based values of the Rust code; a TLA+ sequence s is read at Rust      *)
(* index i as s[i + 1].                                                    *)
(***************************************************************************)
EXTENDS Integers, Sequences, FiniteSets, TLC

VARIABLES
    code,                 \* file_content: the source text, one character per element
    stdin,                \* the bytes standard input will deliver before end-of-file
    stdin_pos,            \* number of bytes already read from stdin
    pos,                  \* number of characters of code the iterator has consumed
    index,                \* the counter of enumerate() in parse_code
    stack,                \* parse_code's stack of pending `[` indices
    parsed_instructions,  \* the instruction vector (parse_code's, then main's)
    buffer,               \* Intepreter.buffer
    pointer,              \* Intepreter.pointer
    instruction_index,    \* execute_code's instruction_index
    output,               \* the bytes written to standard output
    fetches,              \* iterations of execute_code's loop begun so far (counted up to MaxFetch)
    phase,                \* "parse", "parsed", "exec", "done"
    result                \* how the run ended, "none" while it is running

vars == <<code, stdin, stdin_pos, pos, index, stack, parsed_instructions,
          buffer, pointer, instruction_index, output, fetches, phase, result>>

----------------------------------------------------------------------------
(* Bounds of the model *)

\* tape length; the program uses 30000 (main.rs:5), scaled down here
TAPE_SIZE == 4
\* longest source text over the full alphabet
MaxLen == 3
\* longest source text over the bracket alphabet (nested loops)
MaxBracketLen == 5
\* longest standard input
MaxInput == 2
\* print! calls after which the model stops following the output
MaxOut == 3
\* value at which the count of loop iterations stops growing
MaxFetch == 6

----------------------------------------------------------------------------
(* Source texts and inputs *)

\* the eight recognized characters: the string literal of the filter
Symbols == {">", "<", "+", "-", ".", ",", "[", "]"}

\* "x" stands for any character outside the eight symbols
Alphabet == Symbols \cup {"x"}

BracketAlphabet == {"[", "]", "+", "x"}

InputBytes == {0, 65}

BoundedSeq(S, n) == UNION {[1..k -> S] : k \in 0..n}

Rep(ch, n) == [i \in 1..n |-> ch]

\* Intepreter::default: pointer: TAPE_SIZE / 2
StartPointer == TAPE_SIZE \div 2

\* ++>+++++[<+>-]<.
AddProg == <<"+", "+", ">", "+", "+", "+", "+", "+", "[", "<", "+", ">", "-", "]", "<", ".">>

EchoProg == <<",", ".">>

\* one more `<` than there are cells to the left of the start
LeftProg == Rep("<", StartPointer + 1)

\* one more `>` than it takes to move the pointer to TAPE_SIZE
RightProg == Rep(">", (TAPE_SIZE - StartPointer) + 1)

\* moves the pointer to TAPE_SIZE - 1 and then once more, then touches the cell
EdgeProgs == {Rep(">", TAPE_SIZE - StartPointer) \o <<t>> : t \in {"+", "-", ".", ",", "[", "]", "<"}}

\* every symbol once, between comments
AllSymbolsProg == <<"x", ">", "<", "+", "-", ".", ",", "x", "[", "]">>

\* writes a byte, then fails moving left of cell 0, with an instruction left over
OutputThenLeftProg == <<".">> \o LeftProg \o <<"+">>

ScenarioSources == {AddProg, EchoProg, LeftProg, RightProg, AllSymbolsProg, OutputThenLeftProg}
                      \cup EdgeProgs

Sources == BoundedSeq(Alphabet, MaxLen) \cup BoundedSeq(BracketAlphabet, MaxBracketLen)
              \cup ScenarioSources

Inputs == BoundedSeq(InputBytes, MaxInput)

----------------------------------------------------------------------------
(* Instructions: enum Instruction *)

None == <<>>
Some(n) == <<n>>

IncrementPointer == [op |-> "IncrementPointer"]
DecrementPointer == [op |-> "DecrementPointer"]
IncrementValue == [op |-> "IncrementValue"]
DecrementValue == [op |-> "DecrementValue"]
OutputValue == [op |-> "OutputValue"]
InputValue == [op |-> "InputValue"]
Begin(t) == [op |-> "Begin", target |-> t]
End(t) == [op |-> "End", target |-> t]
Halt == [op |-> "Halt"]

----------------------------------------------------------------------------
(* parse_code *)

\* the filter of the character iterator
IsSymbol(ch) == ch \in Symbols

\* variant: enumerate() before filter(), the counter advances on every character
NextIndex_Raw(i, ch) == i + 1

\* filter(..).enumerate(): the counter advances on the characters that pass the filter
NextIndex(i, ch) == IF IsSymbol(ch) THEN i + 1 ELSE i

\* variant: the arms of `>` and `<` are exchanged
PlainInstruction_Swapped(ch) ==
    CASE ch = ">" -> DecrementPointer
      [] ch = "<" -> IncrementPointer
      [] ch = "+" -> IncrementValue
      [] ch = "-" -> DecrementValue
      [] ch = "." -> OutputValue
      [] ch = "," -> InputValue

\* the six symbols that push one instruction without a payload
PlainInstruction(ch) ==
    CASE ch = ">" -> IncrementPointer
      [] ch = "<" -> DecrementPointer
      [] ch = "+" -> IncrementValue
      [] ch = "-" -> DecrementValue
      [] ch = "." -> OutputValue
      [] ch = "," -> InputValue

\* the arm for `[`
MatchBegin(st) ==
    [st EXCEPT !.stack = Append(st.stack, st.index),
               !.instrs = Append(st.instrs, Begin(None))]

\* variant: the `[` is patched with the index of the `]` instead of the index after it
MatchEnd_OffByOne(st) ==
    IF st.stack = <<>>
    THEN [st EXCEPT !.err = "panic_unmatched_end"]
    ELSE LET previous_begin_index == st.stack[Len(st.stack)]
         IN [st EXCEPT
               !.stack = SubSeq(st.stack, 1, Len(st.stack) - 1),
               !.instrs = Append([st.instrs EXCEPT ![previous_begin_index + 1] = Begin(Some(st.index))],
                                 End(previous_begin_index + 1))]

\* variant: a `]` read with an empty stack is skipped instead of failing
MatchEnd_SkipUnmatched(st) ==
    IF st.stack = <<>>
    THEN st
    ELSE LET previous_begin_index == st.stack[Len(st.stack)]
         IN [st EXCEPT
               !.stack = SubSeq(st.stack, 1, Len(st.stack) - 1),
               !.instrs = Append([st.instrs EXCEPT ![previous_begin_index + 1] = Begin(Some(st.index + 1))],
                                 End(previous_begin_index + 1))]

\* the arm for `]`; stack.pop().expect(..) panics on an empty stack
MatchEnd(st) ==
    IF st.stack = <<>>
    THEN [st EXCEPT !.err = "panic_unmatched_end"]
    ELSE LET previous_begin_index == st.stack[Len(st.stack)]
         IN [st EXCEPT
               !.stack = SubSeq(st.stack, 1, Len(st.stack) - 1),
               !.instrs = Append([st.instrs EXCEPT ![previous_begin_index + 1] = Begin(Some(st.index + 1))],
                                 End(previous_begin_index + 1))]

\* the body of the for loop: one character, filtered, then matched
parse_char(st, ch) ==
    LET m == IF ~IsSymbol(ch) THEN st
             ELSE IF ch = "[" THEN MatchBegin(st)
             ELSE IF ch = "]" THEN MatchEnd(st)
             ELSE [st EXCEPT !.instrs = Append(st.instrs, PlainInstruction(ch))]
    IN IF m.err # "none" THEN m ELSE [m EXCEPT !.index = NextIndex(st.index, ch)]

ParseStart == [instrs |-> <<>>, stack |-> <<>>, index |-> 0, err |-> "none"]

RECURSIVE ParseFrom(_, _, _)
ParseFrom(st, s, k) ==
    IF k > Len(s) \/ st.err # "none" THEN st
    ELSE ParseFrom(parse_char(st, s[k]), s, k + 1)

\* parse_code as a function of the source text: the for loop run to its end or to the panic
parse_code(s) == ParseFrom(ParseStart, s, 1)

ParseNow == [instrs |-> parsed_instructions, stack |-> stack, index |-> index, err |-> "none"]

\* one iteration of the for loop of parse_code on the next character
ParseIteration ==
    LET st == parse_char(ParseNow, code[pos + 1])
    IN /\ parsed_instructions' = st.instrs
       /\ stack' = st.stack
       /\ index' = st.index
       /\ IF st.err = "none"
          THEN pos' = pos + 1 /\ UNCHANGED <<phase, result>>
          ELSE pos' = pos /\ phase' = "done" /\ result' = st.err
       /\ UNCHANGED <<code, stdin, stdin_pos, buffer, pointer, instruction_index, output, fetches>>

ParseSkip ==
    /\ phase = "parse" /\ pos < Len(code)
    /\ ~IsSymbol(code[pos + 1])
    /\ ParseIteration

ParsePlain ==
    /\ phase = "parse" /\ pos < Len(code)
    /\ code[pos + 1] \in Symbols \ {"[", "]"}
    /\ ParseIteration

ParseBegin ==
    /\ phase = "parse" /\ pos < Len(code)
    /\ code[pos + 1] = "["
    /\ ParseIteration

ParseEnd ==
    /\ phase = "parse" /\ pos < Len(code)
    /\ code[pos + 1] = "]"
    /\ ParseIteration

\* end of the iterator: return Ok(parsed_instructions), whatever the stack holds
ParseReturn ==
    /\ phase = "parse" /\ pos = Len(code)
    /\ phase' = "parsed"
    /\ UNCHANGED <<code, stdin, stdin_pos, pos, index, stack, parsed_instructions,
                   buffer, pointer, instruction_index, output, fetches, result>>

\* main, the Ok arm: push Halt, then call execute_code (instruction_index = 0)
MainPushHalt ==
    /\ phase = "parsed"
    /\ parsed_instructions' = Append(parsed_instructions, Halt)
    /\ instruction_index' = 0
    /\ phase' = "exec"
    /\ UNCHANGED <<code, stdin, stdin_pos, pos, index, stack,
                   buffer, pointer, output, fetches, result>>

----------------------------------------------------------------------------
(* execute_code *)

\* parsed_code.get(instruction_index): None past the end of the vector
Fetched ==
    IF instruction_index < Len(parsed_instructions)
    THEN Some(parsed_instructions[instruction_index + 1])
    ELSE None

\* the variant the match dispatches on ("None" when the fetch found nothing)
FetchedOp == IF Fetched = None THEN "None" ELSE Fetched[1].op

\* interpreter.buffer[interpreter.pointer] is bounds-checked: it panics past the array
InBounds == pointer < TAPE_SIZE

\* u8::wrapping_add(1), u8::wrapping_sub(1)
wrapping_add(v) == (v + 1) % 256
wrapping_sub(v) == (v + 255) % 256

\* print!("{}", v as char): the char U+0000..U+00FF written as UTF-8
PrintChar(v) == IF v < 128 THEN <<v>> ELSE <<192 + (v \div 64), 128 + (v % 64)>>

\* the run stops: a panic, or a message printed followed by return, or the break at Halt
Stop(r) ==
    /\ phase' = "done"
    /\ result' = r

Running == UNCHANGED <<phase, result>>

ExecIncrementPointer ==
    /\ FetchedOp = "IncrementPointer"
    /\ IF pointer >= TAPE_SIZE
       THEN Stop("pointer_overflow") /\ UNCHANGED <<pointer, instruction_index>>
       ELSE /\ pointer' = pointer + 1
            /\ instruction_index' = instruction_index + 1
            /\ Running
    /\ UNCHANGED <<code, stdin, stdin_pos, pos, index, stack, parsed_instructions,
                   buffer, output>>

\* variant: the underflow test is missing, the pointer is decremented at 0
ExecDecrementPointer_NoCheck ==
    /\ FetchedOp = "DecrementPointer"
    /\ pointer' = pointer - 1
    /\ instruction_index' = instruction_index + 1
    /\ Running
    /\ UNCHANGED <<code, stdin, stdin_pos, pos, index, stack, parsed_instructions,
                   buffer, output>>

\* variant: the `return` after the underflow message is missing, the loop goes on
ExecDecrementPointer_NoReturn ==
    /\ FetchedOp = "DecrementPointer"
    /\ IF pointer <= 0
       THEN /\ result' = "pointer_underflow"
            /\ instruction_index' = instruction_index + 1
            /\ UNCHANGED <<pointer, phase>>
       ELSE /\ pointer' = pointer - 1
            /\ instruction_index' = instruction_index + 1
            /\ Running
    /\ UNCHANGED <<code, stdin, stdin_pos, pos, index, stack, parsed_instructions,
                   buffer, output>>

ExecDecrementPointer ==
    /\ FetchedOp = "DecrementPointer"
    /\ IF pointer <= 0
       THEN Stop("pointer_underflow") /\ UNCHANGED <<pointer, instruction_index>>
       ELSE /\ pointer' = pointer - 1
            /\ instruction_index' = instruction_index + 1
            /\ Running
    /\ UNCHANGED <<code, stdin, stdin_pos, pos, index, stack, parsed_instructions,
                   buffer, output>>

ExecIncrementValue ==
    /\ FetchedOp = "IncrementValue"
    /\ IF ~InBounds
       THEN Stop("panic_index") /\ UNCHANGED <<buffer, instruction_index>>
       ELSE /\ buffer' = [buffer EXCEPT ![pointer] = wrapping_add(buffer[pointer])]
            /\ instruction_index' = instruction_index + 1
            /\ Running
    /\ UNCHANGED <<code, stdin, stdin_pos, pos, index, stack, parsed_instructions,
                   pointer, output>>

ExecDecrementValue ==
    /\ FetchedOp = "DecrementValue"
    /\ IF ~InBounds
       THEN Stop("panic_index") /\ UNCHANGED <<buffer, instruction_index>>
       ELSE /\ buffer' = [buffer EXCEPT ![pointer] = wrapping_sub(buffer[pointer])]
            /\ instruction_index' = instruction_index + 1
            /\ Running
    /\ UNCHANGED <<code, stdin, stdin_pos, pos, index, stack, parsed_instructions,
                   pointer, output>>

\* read_exact of one byte, expect("Input error") at end-of-file, then the store;
\* instruction_index is not advanced
ExecInputValue ==
    /\ FetchedOp = "InputValue"
    /\ IF stdin_pos >= Len(stdin)
       THEN Stop("panic_input") /\ UNCHANGED <<stdin_pos, buffer>>
       ELSE /\ stdin_pos' = stdin_pos + 1
            /\ IF ~InBounds
               THEN Stop("panic_index") /\ UNCHANGED buffer
               ELSE buffer' = [buffer EXCEPT ![pointer] = stdin[stdin_pos + 1]] /\ Running
    /\ UNCHANGED <<code, stdin, pos, index, stack, parsed_instructions,
                   pointer, instruction_index, output>>

ExecOutputValue ==
    /\ FetchedOp = "OutputValue"
    /\ Len(output) < MaxOut
    /\ IF ~InBounds
       THEN Stop("panic_index") /\ UNCHANGED <<output, instruction_index>>
       ELSE /\ output' = output \o PrintChar(buffer[pointer])
            /\ instruction_index' = instruction_index + 1
            /\ Running
    /\ UNCHANGED <<code, stdin, stdin_pos, pos, index, stack, parsed_instructions,
                   buffer, pointer>>

\* variant: the loop begin jumps on a nonzero cell instead of a zero one
ExecBegin_Inverted ==
    /\ FetchedOp = "Begin"
    /\ IF ~InBounds
       THEN Stop("panic_index") /\ UNCHANGED instruction_index
       ELSE IF buffer[pointer] # 0
       THEN IF Fetched[1].target = None
            THEN Stop("panic_unwrap_none") /\ UNCHANGED instruction_index
            ELSE instruction_index' = Fetched[1].target[1] /\ Running
       ELSE instruction_index' = instruction_index + 1 /\ Running
    /\ UNCHANGED <<code, stdin, stdin_pos, pos, index, stack, parsed_instructions,
                   buffer, pointer, output>>

\* jump_address.unwrap() panics on Begin(None)
ExecBegin ==
    /\ FetchedOp = "Begin"
    /\ IF ~InBounds
       THEN Stop("panic_index") /\ UNCHANGED instruction_index
       ELSE IF buffer[pointer] = 0
       THEN IF Fetched[1].target = None
            THEN Stop("panic_unwrap_none") /\ UNCHANGED instruction_index
            ELSE instruction_index' = Fetched[1].target[1] /\ Running
       ELSE instruction_index' = instruction_index + 1 /\ Running
    /\ UNCHANGED <<code, stdin, stdin_pos, pos, index, stack, parsed_instructions,
                   buffer, pointer, output>>

\* variant: the loop end jumps back on a zero cell instead of a nonzero one
ExecEnd_Inverted ==
    /\ FetchedOp = "End"
    /\ IF ~InBounds
       THEN Stop("panic_index") /\ UNCHANGED instruction_index
       ELSE IF buffer[pointer] = 0
       THEN instruction_index' = Fetched[1].target /\ Running
       ELSE instruction_index' = instruction_index + 1 /\ Running
    /\ UNCHANGED <<code, stdin, stdin_pos, pos, index, stack, parsed_instructions,
                   buffer, pointer, output>>

ExecEnd ==
    /\ FetchedOp = "End"
    /\ IF ~InBounds
       THEN Stop("panic_index") /\ UNCHANGED instruction_index
       ELSE IF buffer[pointer] # 0
       THEN instruction_index' = Fetched[1].target /\ Running
       ELSE instruction_index' = instruction_index + 1 /\ Running
    /\ UNCHANGED <<code, stdin, stdin_pos, pos, index, stack, parsed_instructions,
                   buffer, pointer, output>>

ExecHalt ==
    /\ FetchedOp = "Halt"
    /\ Stop("halt")
    /\ UNCHANGED <<code, stdin, stdin_pos, pos, index, stack, parsed_instructions,
                   buffer, pointer, instruction_index, output>>

\* one iteration of the loop: parsed_code.get(instruction_index).unwrap(), then the match
execute_code ==
    /\ phase = "exec"
    /\ fetches' = IF fetches < MaxFetch THEN fetches + 1 ELSE fetches
    /\ IF Fetched = None
       THEN /\ Stop("panic_unwrap_none")
            /\ UNCHANGED <<code, stdin, stdin_pos, pos, index, stack, parsed_instructions,
                           buffer, pointer, instruction_index, output>>
       ELSE \/ ExecIncrementPointer
            \/ ExecDecrementPointer
            \/ ExecIncrementValue
            \/ ExecDecrementValue
            \/ ExecInputValue
            \/ ExecOutputValue
            \/ ExecBegin
            \/ ExecEnd
            \/ ExecHalt

\* what the caller of parse_code / execute_code gets when the run ends with r:
\* execute_code has no return value (break at Halt and the two `return;` all give ()),
\* expect and unwrap abort the process
Delivered(r) ==
    IF r \in {"halt", "pointer_overflow", "pointer_underflow"} THEN "unit" ELSE "panic"

----------------------------------------------------------------------------
(* The program *)

\* main up to the call of parse_code: the file is read, the interpreter is the default
Init ==
    /\ code \in Sources
    /\ stdin \in Inputs
    /\ stdin_pos = 0
    /\ pos = 0
    /\ index = 0
    /\ stack = <<>>
    /\ parsed_instructions = <<>>
    /\ buffer = [i \in 0..(TAPE_SIZE - 1) |-> 0]
    /\ pointer = StartPointer
    /\ instruction_index = 0
    /\ output = <<>>
    /\ fetches = 0
    /\ phase = "parse"
    /\ result = "none"

Next ==
    \/ ParseSkip
    \/ ParsePlain
    \/ ParseBegin
    \/ ParseEnd
    \/ ParseReturn
    \/ MainPushHalt
    \/ execute_code

Spec == Init /\ [][Next]_vars

----------------------------------------------------------------------------
(* Vocabulary of the properties *)

\* the filtered instruction stream of a source text
Filtered(s) == SelectSeq(s, IsSymbol)

\* number of `[` minus number of `]` among the first k characters of s
Depth(s, k) ==
    Cardinality({i \in 1..k : s[i] = "["}) - Cardinality({i \in 1..k : s[i] = "]"})

Balanced(s) ==
    /\ \A k \in 0..Len(s) : Depth(s, k) >= 0
    /\ Depth(s, Len(s)) = 0

\* in the stream f, the `[` at index b and the `]` at index e match (0-based indices)
Match(f, b, e) ==
    /\ b < e
    /\ f[b + 1] = "[" /\ f[e + 1] = "]"
    /\ Depth(f, e + 1) = Depth(f, b)
    /\ \A k \in (b + 1)..e : Depth(f, k) > Depth(f, b)

\* the 0-based positions of s at which a `]` is read with nothing open before it
UnmatchedEnds(s) == {p \in 0..(Len(s) - 1) : Depth(s, p + 1) < 0}

FirstUnmatchedEnd(s) == CHOOSE p \in UnmatchedEnds(s) : \A q \in UnmatchedEnds(s) : p <= q

\* the vector parse_code returned, once it has returned
Returned ==
    IF phase = "parsed" THEN parsed_instructions
    ELSE SubSeq(parsed_instructions, 1, Len(parsed_instructions) - 1)

ParseSucceeded == phase \in {"parsed", "exec"} \/ (phase = "done" /\ result # "panic_unmatched_end")

----------------------------------------------------------------------------
(* Properties *)

\* C1: for a source with balanced brackets parse_code does not fail, and in the
\* vector it returns every matching pair `[` at index b, `]` at index e (indices
\* in the filtered stream, any nesting) has Begin(Some(e + 1)) at b and End(b + 1) at e.
C1_BalancedTargets ==
    Balanced(Filtered(code)) =>
        /\ result # "panic_unmatched_end"
        /\ ParseSucceeded =>
              \A b, e \in 0..(Len(Filtered(code)) - 1) :
                  Match(Filtered(code), b, e) =>
                      /\ Returned[b + 1] = Begin(Some(e + 1))
                      /\ Returned[e + 1] = End(b + 1)

\* a balanced source with a nested pair and a comment has been translated
C1_Witness ==
    /\ phase = "parsed"
    /\ Balanced(Filtered(code))
    /\ Len(Filtered(code)) < Len(code)
    /\ \E b, e, b2, e2 \in 0..(Len(Filtered(code)) - 1) :
          /\ Match(Filtered(code), b, e) /\ Match(Filtered(code), b2, e2)
          /\ b < b2 /\ e2 < e

\* C2: a source with a `[` that is never closed does not translate: parse_code
\* never returns a vector while its bracket stack is non-empty.
C2_UnmatchedBeginFails ==
    phase = "parsed" => stack = <<>>

\* C3: when some `]` is read with an empty stack, translation stops at the first
\* such character with the unmatched-loop-end failure, whatever follows it.
C3_UnmatchedEndFails ==
    UnmatchedEnds(code) # {} =>
        /\ pos <= FirstUnmatchedEnd(code)
        /\ phase \in {"parse", "done"}
        /\ phase = "done" => (result = "panic_unmatched_end" /\ pos = FirstUnmatchedEnd(code))

\* translation failed at a `]` that is followed by a `[` and a `]`
C3_Witness ==
    /\ phase = "done" /\ result = "panic_unmatched_end"
    /\ \E i, j \in (pos + 2)..Len(code) : i < j /\ code[i] = "[" /\ code[j] = "]"

\* C4: the program `,.` run with the input byte 65 ends at Halt with output 65.
C4_EchoHalts ==
    (code = EchoProg /\ stdin = <<65>> /\ phase = "done") =>
        (result = "halt" /\ output = <<65>>)

\* C5: the pointer is always a valid tape index.
C5_PointerValid ==
    pointer \in 0..(TAPE_SIZE - 1)

\* C6: `>` at the last valid index ends the run with pointer-overflow and leaves
\* the pointer unchanged; below the last valid index it adds one to the pointer
\* and to the instruction index.
C6_ForwardAtLastIndex ==
    [][(phase = "exec" /\ FetchedOp = "IncrementPointer") =>
          /\ pointer = TAPE_SIZE - 1 =>
                (phase' = "done" /\ result' = "pointer_overflow" /\ pointer' = pointer)
          /\ pointer < TAPE_SIZE - 1 =>
                (pointer' = pointer + 1 /\ instruction_index' = instruction_index + 1)]_vars

\* C7: `<` at pointer 0 ends the run with pointer-underflow and the pointer still 0;
\* above 0 it subtracts one from the pointer and adds one to the instruction index.
\* So StartPointer + 1 consecutive `<` fail with pointer-underflow on the last one.
C7_BackwardAtZero ==
    /\ [][(phase = "exec" /\ FetchedOp = "DecrementPointer") =>
             /\ pointer = 0 =>
                   (phase' = "done" /\ result' = "pointer_underflow" /\ pointer' = 0
                    /\ UNCHANGED <<instruction_index, buffer, output>>)
             /\ pointer > 0 =>
                   (pointer' = pointer - 1 /\ instruction_index' = instruction_index + 1
                    /\ phase' = "exec" /\ result' = "none")]_vars
    /\ []((code = LeftProg /\ phase = "done") =>
             (result = "pointer_underflow" /\ pointer = 0
              /\ instruction_index = Len(LeftProg) - 1))

\* the run of StartPointer + 1 `<` has ended with pointer-underflow
C7_Witness ==
    code = LeftProg /\ phase = "done" /\ result = "pointer_underflow" /\ pointer = 0

\* C8: `+` and `-` never fail: they store (v + 1) mod 256, (v - 1) mod 256 at the
\* pointer and advance the instruction index by one.
C8_CellArithmeticNeverFails ==
    [][(phase = "exec" /\ FetchedOp \in {"IncrementValue", "DecrementValue"}) =>
          /\ phase' = "exec" /\ result' = "none"
          /\ instruction_index' = instruction_index + 1
          /\ pointer' = pointer
          /\ buffer'[pointer] = IF FetchedOp = "IncrementValue"
                                THEN (buffer[pointer] + 1) % 256
                                ELSE (buffer[pointer] - 1) % 256]_vars

\* C9: `++>+++++[<+>-]<.` on the fresh tape ends at Halt with the pointer on its
\* starting cell, that cell 7, the cell to its right 0, and the output the byte 7.
C9_AddProgram ==
    (code = AddProg /\ phase = "done") =>
        /\ result = "halt"
        /\ pointer = StartPointer
        /\ buffer[StartPointer] = 7
        /\ buffer[StartPointer + 1] = 0
        /\ output = <<7>>

\* the addition program has run to Halt
C9_Witness ==
    code = AddProg /\ phase = "done" /\ result = "halt" /\ output = <<7>>

\* C10: characters outside the eight symbols are transparent: the outcome of
\* translating a source is the outcome of translating it with those characters
\* removed (the same failure, or the same instructions with the same targets).
C10_CommentsTransparent ==
    phase # "parse" =>
        LET r == parse_code(Filtered(code))
        IN IF r.err # "none"
           THEN phase = "done" /\ result = r.err
           ELSE ParseSucceeded /\ Returned = r.instrs

\* a source with a comment before a loop has been translated
C10_Witness ==
    /\ phase = "parsed"
    /\ \E i, j, k \in 1..Len(code) :
          i < j /\ j < k /\ code[i] = "x" /\ code[j] = "[" /\ code[k] = "]"

\* the execution failures
ExecFailures == {"pointer_overflow", "pointer_underflow", "panic_input"}

\* C11: every failure reaches the caller as a value that differs from the value of
\* a completed run and from the value of every other failure; none is a crash.
C11_FailuresDelivered ==
    phase = "done" =>
        /\ Delivered(result) # "panic"
        /\ result # "halt" => Delivered(result) # Delivered("halt")
        /\ \A r \in ExecFailures \ {result} : Delivered(result) # Delivered(r)

\* C12: an execution failure is terminal: once the run has failed, no step changes
\* the failure, the instruction index, the pointer, the tape, the input position
\* or the output.
C12_FailureTerminal ==
    [][(result \in ExecFailures) =>
          (UNCHANGED <<result, phase, instruction_index, pointer, buffer, stdin_pos, output>>)]_vars

\* a run has failed after writing output and before its last instruction
C12_Witness ==
    /\ phase = "done" /\ result \in ExecFailures
    /\ output # <<>>
    /\ instruction_index + 1 < Len(parsed_instructions) - 1

\* C13: once translation has succeeded and Halt has been pushed, every fetch finds
\* an instruction (0 <= instruction_index <= index of Halt) and no taken loop-begin
\* jump finds an absent target.
C13_FetchValid ==
    (phase \in {"exec", "done"} /\ ParseSucceeded) =>
        /\ instruction_index \in 0..(Len(parsed_instructions) - 1)
        /\ result # "panic_unwrap_none"

\* C14: `,` with a byte left consumes exactly one byte, stores it at the pointer and
\* advances the instruction index by one; with no byte left it ends the run with
\* the input failure.
C14_InputAdvances ==
    [][(phase = "exec" /\ FetchedOp = "InputValue") =>
          IF stdin_pos < Len(stdin)
          THEN /\ instruction_index' = instruction_index + 1
               /\ stdin_pos' = stdin_pos + 1
               /\ pointer' = pointer
               /\ pointer \in DOMAIN buffer
               /\ buffer' = [buffer EXCEPT ![pointer] = stdin[stdin_pos + 1]]
          ELSE phase' = "done" /\ result' = "panic_input"]_vars

\* C15: when parse_code returns, its stack is empty and every Begin of the vector
\* carries a target.
C15_ReturnedResolved ==
    phase = "parsed" =>
        /\ stack = <<>>
        /\ \A i \in 1..Len(parsed_instructions) :
              parsed_instructions[i].op = "Begin" => parsed_instructions[i].target # None

\* C16: for a source with an unmatched `[` or `]` nothing is ever executed: no
\* loop iteration begins, no byte is written or read, the tape stays zero and the
\* pointer stays at its start.
C16_NoExecutionAfterBadSource ==
    ~Balanced(Filtered(code)) =>
        /\ fetches = 0
        /\ output = <<>>
        /\ stdin_pos = 0
        /\ \A i \in DOMAIN buffer : buffer[i] = 0
        /\ pointer = StartPointer

\* the instruction variant each recognized character stands for
VariantOf(ch) ==
    CASE ch = ">" -> "IncrementPointer"
      [] ch = "<" -> "DecrementPointer"
      [] ch = "+" -> "IncrementValue"
      [] ch = "-" -> "DecrementValue"
      [] ch = "." -> "OutputValue"
      [] ch = "," -> "InputValue"
      [] ch = "[" -> "Begin"
      [] ch = "]" -> "End"

\* C17: a successful parse_code returns one instruction per recognized character,
\* in source order and of that character's variant, and no Halt; the Halt pushed
\* by main is the only Halt and the last element.
C17_OneInstructionPerSymbol ==
    ParseSucceeded =>
        /\ Len(Returned) = Len(Filtered(code))
        /\ \A i \in 1..Len(Returned) : Returned[i].op = VariantOf(Filtered(code)[i])
        /\ phase # "parsed" =>
              /\ Len(parsed_instructions) = Len(Filtered(code)) + 1
              /\ parsed_instructions[Len(parsed_instructions)] = Halt

\* the source with every symbol and two comments has been translated and Halt pushed
C17_Witness ==
    code = AllSymbolsProg /\ phase = "exec" /\ Len(parsed_instructions) = 9

\* the matching pair (b, e) of the filtered stream whose `[` or `]` is at index i
PairAt(f, i) ==
    CHOOSE p \in (0..(Len(f) - 1)) \X (0..(Len(f) - 1)) :
        Match(f, p[1], p[2]) /\ i \in {p[1], p[2]}

\* C18: in a run of a balanced program, a step of a loop-begin or loop-end that
\* leaves the run going arrives either just after the loop-end, with the cell at
\* the pointer 0, or just after the loop-begin, with that cell nonzero.
C18_WhileLoops ==
    [][(phase = "exec" /\ phase' = "exec" /\ Balanced(Filtered(code))
        /\ FetchedOp \in {"Begin", "End"}) =>
          LET p == PairAt(Filtered(code), instruction_index)
          IN /\ instruction_index' \in {p[1] + 1, p[2] + 1}
             /\ instruction_index' = p[2] + 1 => buffer'[pointer'] = 0
             /\ instruction_index' = p[1] + 1 => buffer'[pointer'] # 0]_vars

\* the addition loop has been re-entered by its loop-end after one iteration
C18_Witness ==
    /\ code = AddProg /\ phase = "exec"
    /\ instruction_index = 9
    /\ buffer[StartPointer + 1] = 4 /\ pointer = StartPointer + 1

\* C19: an executed instruction changes only its own part of the state: `>`, `<`,
\* `.`, `[`, `]` and Halt leave the tape unchanged; `+`, `-` and `,` leave the
\* pointer and every cell but the one at the pointer unchanged; only `.` appends
\* to the output, exactly one byte, the value of the cell at the pointer; the
\* instruction vector is never modified.
C19_FrameEffects ==
    [][(phase = "exec") =>
          /\ parsed_instructions' = parsed_instructions
          /\ FetchedOp \in {"IncrementPointer", "DecrementPointer", "OutputValue",
                            "Begin", "End", "Halt"} => buffer' = buffer
          /\ FetchedOp \in {"IncrementValue", "DecrementValue", "InputValue"} =>
                /\ pointer' = pointer
                /\ \A i \in DOMAIN buffer \ {pointer} : buffer'[i] = buffer[i]
          /\ FetchedOp # "OutputValue" => output' = output
          /\ (FetchedOp = "OutputValue" /\ phase' = "exec") =>
                output' = Append(output, buffer[pointer])]_vars

\* a source without `[` and `]`
BracketFree(s) == \A i \in 1..Len(s) : s[i] \notin {"[", "]"}

\* C20: a run of a bracket-free program with n recognized characters begins at
\* most n + 1 loop iterations, and it ends as completed only at the Halt.
C20_BracketFreeTerminates ==
    BracketFree(code) =>
        /\ fetches <= Len(Filtered(code)) + 1
        /\ result = "halt" => FetchedOp = "Halt"

====
